---- MODULE Spec2Model ----
(***************************************************************************)
(* Kubernetes metrics dashboard backend (backend/main.py): the start-up    *)
(* mode resolution and the request handlers of "/", "/node-usage" and      *)
(* "/health", with the control plane, the metrics API and the clock as the *)
(* environment.                                                            *)
(***************************************************************************)
EXTENDS Integers, Sequences, FiniteSets, TLC

\* ---- bounds of the model ----
MaxRequests == 2    \* requests received over the process lifetime
MaxObjects == 1     \* objects the cluster holds at one time, all kinds together
MaxTime == 1        \* last instant of the clock
MaxItems == 2       \* items in one metrics-API payload

VARIABLES
    phase,          \* position of the module-level code / of the process
    core_v1,        \* main.py:13 global
    metrics_api,    \* main.py:14 global
    mode,           \* main.py:15 global
    startup_log,    \* library calls made by the config detection, with outcomes
    reqs,           \* the requests: endpoint, position, locals, response
    cluster,        \* control-plane state: number of objects of each kind
    now,            \* the clock read by datetime.utcnow()
    last_arrival,   \* instant at which the latest request arrived
    latestMetricsData,  \* dashboard script: the last body fetched from "/"
    status_health   \* dashboard page: the text of the health badge

vars ==
    <<phase, core_v1, metrics_api, mode, startup_log, reqs, cluster, now,
      last_arrival, latestMetricsData, status_health>>

dashboard == <<latestMetricsData, status_health>>

env == <<cluster, now>>

globals == <<core_v1, metrics_api, mode>>

None == "None"

\* ---- start-up: Kubernetes config detection (main.py:13-32) ----

\* What a call into the kubernetes library can do at start-up.
LibOutcomes == {"ok", "ConfigException", "OtherFault"}

CoreV1Api == "CoreV1Api"
CustomObjectsApi == "CustomObjectsApi"

Logged(call, o) == startup_log' = Append(startup_log, <<call, o>>)

\* Mutant: the outer except clause gives up at once instead of trying the
\* local kubeconfig.
OuterExceptToMock ==
    /\ core_v1' = None
    /\ metrics_api' = None
    /\ mode' = "mock"
    /\ phase' = "serving"

\* Fallback taken by `except ConfigException` of the outer try (line 23).
OuterExcept ==
    /\ phase' = "load_kube_config"
    /\ UNCHANGED <<core_v1, metrics_api, mode>>

\* Mutant: the inner except clause sets the mode but leaves the handles.
InnerExceptKeepsHandles ==
    /\ mode' = "mock"
    /\ phase' = "serving"
    /\ UNCHANGED <<core_v1, metrics_api>>

\* Body of the inner `except ConfigException` (lines 29-32).
InnerExcept ==
    /\ core_v1' = None
    /\ metrics_api' = None
    /\ mode' = "mock"
    /\ phase' = "serving"

\* Mutant: a bare `except:` that degrades any fault to mock mode.
UncaughtDegrades ==
    /\ core_v1' = None
    /\ metrics_api' = None
    /\ mode' = "mock"
    /\ phase' = "serving"

\* A fault that no except clause of the chain matches: the import of the
\* module fails and the application never starts.
Uncaught ==
    /\ phase' = "crashed"
    /\ UNCHANGED <<core_v1, metrics_api, mode>>

\* line 19
LoadInclusterConfig ==
    /\ phase = "load_incluster_config"
    /\ \E o \in LibOutcomes :
          /\ Logged("load_incluster_config", o)
          /\ CASE o = "ok" -> /\ phase' = "t1_core_v1"
                              /\ UNCHANGED <<core_v1, metrics_api, mode>>
               [] o = "ConfigException" -> OuterExcept
               [] OTHER -> Uncaught
    /\ UNCHANGED <<reqs, env, last_arrival, dashboard>>

\* line 20
Tier1CoreV1 ==
    /\ phase = "t1_core_v1"
    /\ \E o \in LibOutcomes :
          /\ Logged("t1.CoreV1Api", o)
          /\ CASE o = "ok" -> /\ core_v1' = CoreV1Api
                              /\ phase' = "t1_metrics_api"
                              /\ UNCHANGED <<metrics_api, mode>>
               [] o = "ConfigException" -> OuterExcept
               [] OTHER -> Uncaught
    /\ UNCHANGED <<reqs, env, last_arrival, dashboard>>

\* lines 21-22
Tier1MetricsApi ==
    /\ phase = "t1_metrics_api"
    /\ \E o \in LibOutcomes :
          /\ Logged("t1.CustomObjectsApi", o)
          /\ CASE o = "ok" -> /\ metrics_api' = CustomObjectsApi
                              /\ mode' = "kubernetes"
                              /\ phase' = "serving"
                              /\ UNCHANGED core_v1
               [] o = "ConfigException" -> OuterExcept
               [] OTHER -> Uncaught
    /\ UNCHANGED <<reqs, env, last_arrival, dashboard>>

\* line 25
LoadKubeConfig ==
    /\ phase = "load_kube_config"
    /\ \E o \in LibOutcomes :
          /\ Logged("load_kube_config", o)
          /\ CASE o = "ok" -> /\ phase' = "t2_core_v1"
                              /\ UNCHANGED <<core_v1, metrics_api, mode>>
               [] o = "ConfigException" -> InnerExcept
               [] OTHER -> Uncaught
    /\ UNCHANGED <<reqs, env, last_arrival, dashboard>>

\* line 26
Tier2CoreV1 ==
    /\ phase = "t2_core_v1"
    /\ \E o \in LibOutcomes :
          /\ Logged("t2.CoreV1Api", o)
          /\ CASE o = "ok" -> /\ core_v1' = CoreV1Api
                              /\ phase' = "t2_metrics_api"
                              /\ UNCHANGED <<metrics_api, mode>>
               [] o = "ConfigException" -> InnerExcept
               [] OTHER -> Uncaught
    /\ UNCHANGED <<reqs, env, last_arrival, dashboard>>

\* lines 27-28
Tier2MetricsApi ==
    /\ phase = "t2_metrics_api"
    /\ \E o \in LibOutcomes :
          /\ Logged("t2.CustomObjectsApi", o)
          /\ CASE o = "ok" -> /\ metrics_api' = CustomObjectsApi
                              /\ mode' = "local"
                              /\ phase' = "serving"
                              /\ UNCHANGED core_v1
               [] o = "ConfigException" -> InnerExcept
               [] OTHER -> Uncaught
    /\ UNCHANGED <<reqs, env, last_arrival, dashboard>>

\* ---- environment: control plane, metrics API, clock ----

Resources == {"nodes", "pods", "namespaces", "services"}

\* The list a "list all" query returns when the cluster holds c such objects.
ListOf(c) == [i \in 1..c |-> i]

\* kubernetes.client.exceptions.ApiException carries status, reason, body.
ApiFaults ==
    { [class |-> "ApiException", status |-> 403, reason |-> "Forbidden",
       body |-> "forbidden-body"],
      [class |-> "ApiException", status |-> 504, reason |-> "Gateway Timeout",
       body |-> "timeout-body"] }

\* Any other Exception: a network-level failure, a response that does not
\* deserialize.
OtherFaults ==
    { [class |-> "Exception", msg |-> "connection refused"],
      [class |-> "Exception", msg |-> "malformed response"] }

Faults == ApiFaults \cup OtherFaults

\* isinstance(e, cls): ApiException derives from Exception.
IsInstance(e, cls) == cls = "Exception" \/ e.class = cls

\* str(e): the message of a plain exception; ApiException formats its status,
\* reason and body (kubernetes/client/exceptions.py __str__).
Str(e) ==
    IF e.class = "ApiException"
    THEN <<"(", e.status, ")", "Reason: ", e.reason, "HTTP response body: ", e.body>>
    ELSE <<e.msg>>

\* Mutant: the timestamp is computed once, when the module is imported.
IsoFormatZFrozen(t) == <<0, "Z">>

\* datetime.utcnow().isoformat() + "Z"
IsoFormatZ(t) == <<t, "Z">>

\* JSON values of the metrics payload (list_cluster_custom_object returns the
\* decoded JSON object as it is).
JNull == [t |-> "null"]
JList(s) == [t |-> "list", v |-> s]

EmptyDict == [k \in {} |-> ""]

NodeItems ==
    { [metadata |-> [name |-> "node-a"],
       usage |-> [cpu |-> "250m", memory |-> "512Mi"]],
      [metadata |-> [name |-> "node-b"],
       usage |-> [cpu |-> "1", memory |-> "2Gi"]],
      [metadata |-> EmptyDict,
       usage |-> [cpu |-> "250m", memory |-> "512Mi"]],
      [metadata |-> [name |-> "node-c"]] }

ItemSeqs == UNION { [1..n -> NodeItems] : n \in 0..MaxItems }

MetricsPayloads ==
    { [kind |-> "NodeMetricsList", items |-> JList(s)] : s \in ItemSeqs }
    \cup { [kind |-> "NodeMetricsList", items |-> JNull],
           [kind |-> "Status"] }

\* ---- responses ----

NoResp == [status |-> 0]

\* A handler that returns a value is answered with 200 and the value as body.
Ok200(b) == [status |-> 200, body |-> b]

\* A fault that leaves the handler is answered by the framework with 500.
Escaped == [status |-> 500, body |-> "Internal Server Error"]

NoLocals == [k \in {} |-> 0]

IdleReq ==
    [ep |-> "-", pc |-> "idle", locals |-> NoLocals, calls |-> <<>>,
     resp |-> NoResp]

Endpoints == {"/", "/node-usage", "/ui", "/health"}

\* A request arrives and is dispatched to its handler. Requests are numbered
\* in arrival order.
Receive(r) ==
    /\ phase = "serving"
    /\ reqs[r].pc = "idle"
    /\ r > 1 => reqs[r - 1].pc # "idle"
    /\ \E ep \in Endpoints :
          reqs' = [reqs EXCEPT ![r] = [IdleReq EXCEPT !.ep = ep, !.pc = "entry"]]
    /\ last_arrival' = now
    /\ UNCHANGED <<phase, globals, startup_log, env, dashboard>>

\* The handler of request r returns body b.
Return(r, b) ==
    reqs' = [reqs EXCEPT ![r].pc = "done", ![r].locals = NoLocals,
                         ![r].resp = Ok200(b)]

\* Entries of a request's log of outbound calls: the call and what it
\* returned or raised.
Returned(c, v) == [call |-> c, ok |-> TRUE, value |-> v]
Threw(c, e) == [call |-> c, ok |-> FALSE, fault |-> e]

\* Mutant: metrics() stores the mode of its response in the global.
HandledStoresMode ==
    /\ LET r == CHOOSE q \in DOMAIN reqs : reqs'[q] # reqs[q]
       IN  mode' = IF reqs'[r].ep = "/" /\ reqs'[r].pc = "done"
                   THEN reqs'[r].resp.body.mode
                   ELSE mode
    /\ UNCHANGED <<phase, core_v1, metrics_api, startup_log, env, last_arrival,
                   dashboard>>

\* A step of a handler writes its own request only: no handler declares a
\* global, and none assigns phase, clock or cluster.
Handled == UNCHANGED <<phase, globals, startup_log, env, last_arrival, dashboard>>

\* The handler of request r makes outbound call c, which raises fault e; the
\* except clauses turn it into response rsp.
Raised(r, c, e, rsp) ==
    reqs' = [reqs EXCEPT ![r].pc = "done", ![r].locals = NoLocals,
                         ![r].calls = Append(@, Threw(c, e)), ![r].resp = rsp]

\* ---- GET / : metrics() (main.py:85-128) ----

\* lines 88-97
MockSnapshot(t) ==
    [mode |-> mode,
     cluster |-> [nodes |-> 0, pods |-> 0, namespaces |-> 0, services |-> 0],
     timestamp |-> IsoFormatZ(t)]

\* Mutant: the counts of nodes and pods are taken from each other's list.
SnapshotSwapped(l, t) ==
    [mode |-> mode,
     cluster |-> [nodes |-> Len(l.pods), pods |-> Len(l.nodes),
                  namespaces |-> Len(l.namespaces),
                  services |-> Len(l.services)],
     timestamp |-> IsoFormatZ(t)]

\* Mutant: the counts are re-read together when the response is built, so
\* that they form one consistent snapshot.
SnapshotAtomic(l, t) ==
    [mode |-> mode,
     cluster |-> [nodes |-> cluster["nodes"], pods |-> cluster["pods"],
                  namespaces |-> cluster["namespaces"],
                  services |-> Len(l.services)],
     timestamp |-> IsoFormatZ(t)]

\* lines 105-114
Snapshot(l, t) ==
    [mode |-> mode,
     cluster |-> [nodes |-> Len(l.nodes), pods |-> Len(l.pods),
                  namespaces |-> Len(l.namespaces),
                  services |-> Len(l.services)],
     timestamp |-> IsoFormatZ(t)]

\* Mutant: the body of the error report is filled with the reason.
KubernetesErrorReasonAsBody(e) ==
    [mode |-> "kubernetes-error",
     error |-> [status |-> e.status, reason |-> e.reason, body |-> e.reason]]

\* lines 115-123
KubernetesError(e) ==
    [mode |-> "kubernetes-error",
     error |-> [status |-> e.status, reason |-> e.reason, body |-> e.body]]

\* lines 124-128
UnexpectedError(e) ==
    [mode |-> "unexpected-error", error |-> Str(e)]

\* Mutant: metrics() without its `except Exception` clause.
MetricsExceptApiOnly(e) ==
    IF IsInstance(e, "ApiException") THEN Ok200(KubernetesError(e))
    ELSE Escaped

\* Mutant: the broad except clause placed before the ApiException one.
MetricsExceptBroadFirst(e) ==
    IF IsInstance(e, "Exception") THEN Ok200(UnexpectedError(e))
    ELSE IF IsInstance(e, "ApiException") THEN Ok200(KubernetesError(e))
    ELSE Escaped

\* The except clauses of metrics(), in their order (lines 115, 124).
MetricsExcept(e) ==
    IF IsInstance(e, "ApiException") THEN Ok200(KubernetesError(e))
    ELSE IF IsInstance(e, "Exception") THEN Ok200(UnexpectedError(e))
    ELSE Escaped

\* Mutant: metrics() without the check of the handle (as in main-old.py).
MetricsEntryNoGuard(r) ==
    /\ reqs[r].ep = "/"
    /\ reqs[r].pc = "entry"
    /\ reqs' = [reqs EXCEPT ![r].pc = "list_node"]
    /\ Handled

\* Mutant: once a request has been answered with an error, the error is
\* served to the following requests without querying again.
MetricsEntrySticky(r) ==
    /\ reqs[r].ep = "/"
    /\ reqs[r].pc = "entry"
    /\ LET failed == {q \in DOMAIN reqs :
                        /\ reqs[q].ep = "/" /\ reqs[q].pc = "done"
                        /\ reqs[q].calls # <<>>
                        /\ ~reqs[q].calls[Len(reqs[q].calls)].ok}
       IN  IF core_v1 = None
           THEN Return(r, MockSnapshot(now))
           ELSE IF failed # {}
                THEN Return(r, reqs[CHOOSE q \in failed : TRUE].resp.body)
                ELSE reqs' = [reqs EXCEPT ![r].pc = "list_node"]
    /\ Handled

\* line 87
MetricsEntry(r) ==
    /\ reqs[r].ep = "/"
    /\ reqs[r].pc = "entry"
    /\ IF core_v1 = None
       THEN Return(r, MockSnapshot(now))
       ELSE reqs' = [reqs EXCEPT ![r].pc = "list_node"]
    /\ Handled

\* Mutant: a query that raises is issued a second time.
ListQueryRetries(r, here, call, resource, next) ==
    /\ reqs[r].ep = "/"
    /\ reqs[r].pc = here
    /\ \/ reqs' = [reqs EXCEPT
                      ![r].locals = @ @@ (resource :> ListOf(cluster[resource])),
                      ![r].calls = Append(@, Returned(call, ListOf(cluster[resource]))),
                      ![r].pc = next]
       \/ \E e \in Faults :
             reqs' = [reqs EXCEPT
                         ![r].locals = @ @@ (resource :> ListOf(cluster[resource])),
                         ![r].calls = Append(Append(@, Threw(call, e)),
                                             Returned(call, ListOf(cluster[resource]))),
                         ![r].pc = next]
    /\ Handled

\* Mutant: a query that raises is taken to have returned nothing, and the
\* following queries are still issued.
ListQueryContinues(r, here, call, resource, next) ==
    /\ reqs[r].ep = "/"
    /\ reqs[r].pc = here
    /\ \/ reqs' = [reqs EXCEPT
                      ![r].locals = @ @@ (resource :> ListOf(cluster[resource])),
                      ![r].calls = Append(@, Returned(call, ListOf(cluster[resource]))),
                      ![r].pc = next]
       \/ \E e \in Faults :
             reqs' = [reqs EXCEPT
                         ![r].locals = @ @@ (resource :> <<>>),
                         ![r].calls = Append(@, Threw(call, e)),
                         ![r].pc = next]
    /\ Handled

\* One of the four list queries: it returns the objects the cluster holds at
\* this instant, or raises.
ListQuery(r, here, call, resource, next) ==
    /\ reqs[r].ep = "/"
    /\ reqs[r].pc = here
    /\ \/ reqs' = [reqs EXCEPT
                      ![r].locals = @ @@ (resource :> ListOf(cluster[resource])),
                      ![r].calls = Append(@, Returned(call, ListOf(cluster[resource]))),
                      ![r].pc = next]
       \/ \E e \in Faults : Raised(r, call, e, MetricsExcept(e))
    /\ Handled

\* line 100
ListNode(r) == ListQuery(r, "list_node", "list_node", "nodes", "list_pod")

\* line 101
ListPod(r) ==
    ListQuery(r, "list_pod", "list_pod_for_all_namespaces", "pods",
              "list_namespace")

\* line 102
ListNamespace(r) ==
    ListQuery(r, "list_namespace", "list_namespace", "namespaces",
              "list_service")

\* lines 103-114: the last query, and on its success the return statement
ListService(r) ==
    /\ reqs[r].ep = "/"
    /\ reqs[r].pc = "list_service"
    /\ \/ LET l == reqs[r].locals @@ ("services" :> ListOf(cluster["services"]))
          IN  reqs' = [reqs EXCEPT
                          ![r].locals = NoLocals,
                          ![r].calls = Append(@, Returned("list_service_for_all_namespaces",
                                                          l.services)),
                          ![r].pc = "done",
                          ![r].resp = Ok200(Snapshot(l, now))]
       \/ \E e \in Faults :
             Raised(r, "list_service_for_all_namespaces", e, MetricsExcept(e))
    /\ Handled

\* ---- GET /node-usage : node_usage() (main.py:36-81) ----

\* dict.get(k, default)
Get(d, k, default) == IF k \in DOMAIN d THEN d[k] ELSE default

\* KeyError raised by d[k] on a missing key; str() of it is the quoted key.
KeyError(k) == [class |-> "Exception", msg |-> k]

\* TypeError raised by iterating a value that is not a list.
NotIterable == [class |-> "Exception", msg |-> "'NoneType' object is not iterable"]

\* The first subscript of lines 60-62 that fails on item n, in evaluation
\* order, or "" when all three succeed.
MissingKey(n) ==
    IF "metadata" \notin DOMAIN n THEN "metadata"
    ELSE IF "name" \notin DOMAIN n.metadata THEN "name"
    ELSE IF "usage" \notin DOMAIN n THEN "usage"
    ELSE IF "cpu" \notin DOMAIN n.usage THEN "cpu"
    ELSE IF "memory" \notin DOMAIN n.usage THEN "memory"
    ELSE ""

\* Mutant: cpu and memory are taken from each other's field.
EntrySwapped(n) ==
    [node |-> n.metadata.name, cpu |-> n.usage.memory, memory |-> n.usage.cpu]

\* lines 59-63
Entry(n) == [node |-> n.metadata.name, cpu |-> n.usage.cpu, memory |-> n.usage.memory]

\* The loop of lines 56-64 from position i on, items holding the entries
\* appended so far: the finished list, or the fault that ends the loop.
RECURSIVE ProjectFrom(_, _, _)
ProjectFrom(src, i, items) ==
    IF i > Len(src) THEN [raised |-> FALSE, items |-> items]
    ELSE IF MissingKey(src[i]) # ""
         THEN [raised |-> TRUE, fault |-> KeyError(MissingKey(src[i]))]
         ELSE ProjectFrom(src, i + 1, Append(items, Entry(src[i])))

\* lines 56-64 on the payload node_metrics
Project(node_metrics) ==
    LET src == Get(node_metrics, "items", JList(<<>>))
    IN  IF src.t # "list" THEN [raised |-> TRUE, fault |-> NotIterable]
        ELSE ProjectFrom(src.v, 1, <<>>)

\* Mutant: the unavailability answer carries the hint of the except clause.
UnavailableWithHint ==
    [mode |-> mode,
     error |-> <<"Metrics API not available (not connected to cluster)">>,
     hint |-> "Is metrics-server installed?",
     items |-> <<>>]

\* lines 43-47
Unavailable ==
    [mode |-> mode,
     error |-> <<"Metrics API not available (not connected to cluster)">>,
     items |-> <<>>]

\* lines 66-70
Usage(items, t) ==
    [mode |-> mode, items |-> items, timestamp |-> IsoFormatZ(t)]

Hint == "Is metrics-server installed? Run: kubectl apply -f https://github.com/kubernetes-sigs/metrics-server/releases/latest/download/components.yaml"

\* Mutant: node_usage() reports an error mode as metrics() does.
UsageApiErrorMode(e) ==
    [mode |-> "kubernetes-error", error |-> <<"Kubernetes API error: ", e.reason>>,
     hint |-> Hint, items |-> <<>>]

\* lines 72-78
UsageApiError(e) ==
    [mode |-> mode, error |-> <<"Kubernetes API error: ", e.reason>>,
     hint |-> Hint, items |-> <<>>]

\* Mutant: the generic except clause carries the hint as well.
UsageUnexpectedWithHint(e) ==
    [mode |-> mode, error |-> <<"Unexpected error: ">> \o Str(e), hint |-> Hint,
     items |-> <<>>]

\* lines 80-81
UsageUnexpected(e) ==
    [mode |-> mode, error |-> <<"Unexpected error: ">> \o Str(e), items |-> <<>>]

\* The except clauses of node_usage(), in their order (lines 72, 80).
UsageExcept(e) ==
    IF IsInstance(e, "ApiException") THEN Ok200(UsageApiError(e))
    ELSE IF IsInstance(e, "Exception") THEN Ok200(UsageUnexpected(e))
    ELSE Escaped

\* line 42
NodeUsageEntry(r) ==
    /\ reqs[r].ep = "/node-usage"
    /\ reqs[r].pc = "entry"
    /\ IF metrics_api = None
       THEN Return(r, Unavailable)
       ELSE reqs' = [reqs EXCEPT ![r].pc = "list_cluster_custom_object"]
    /\ Handled

\* lines 49-81: the metrics query, and on its success the projection loop
\* and the return statement (or the except clause for a fault of the loop)
ListClusterCustomObject(r) ==
    /\ reqs[r].ep = "/node-usage"
    /\ reqs[r].pc = "list_cluster_custom_object"
    /\ \/ \E node_metrics \in MetricsPayloads :
             LET res == Project(node_metrics)
             IN  reqs' = [reqs EXCEPT
                             ![r].calls = Append(@, Returned("list_cluster_custom_object",
                                                             node_metrics)),
                             ![r].pc = "done",
                             ![r].resp = IF res.raised THEN UsageExcept(res.fault)
                                         ELSE Ok200(Usage(res.items, now))]
       \/ \E e \in Faults :
             Raised(r, "list_cluster_custom_object", e, UsageExcept(e))
    /\ Handled

\* ---- GET /ui (main.py:132-707) and GET /health (main.py:713-716) ----

Page == "<!DOCTYPE html>"

Ui(r) ==
    /\ reqs[r].ep = "/ui"
    /\ reqs[r].pc = "entry"
    /\ Return(r, Page)
    /\ Handled

\* Mutant: the health answer reflects the mode.
HealthReflectsMode(r) ==
    /\ reqs[r].ep = "/health"
    /\ reqs[r].pc = "entry"
    /\ Return(r, [status |-> IF mode = "mock" THEN "degraded" ELSE "ok"])
    /\ Handled

Health(r) ==
    /\ reqs[r].ep = "/health"
    /\ reqs[r].pc = "entry"
    /\ Return(r, [status |-> "ok"])
    /\ Handled

\* ---- dashboard script of the page served by /ui (main.py:474-705) ----

\* loadMetrics() (lines 509-534) run on the answer to the "/" request r that
\* the page fetched: a failed response, or a body without cluster, throws,
\* and the catch clause switches the health badge to Error; nothing in the
\* script sets the badge back.
LoadMetrics(r) ==
    /\ phase = "serving"
    /\ reqs[r].ep = "/"
    /\ reqs[r].pc = "done"
    /\ IF reqs[r].resp.status # 200
       THEN /\ status_health' = "Error"
            /\ UNCHANGED latestMetricsData
       ELSE /\ latestMetricsData' = reqs[r].resp.body
            /\ status_health' = IF "cluster" \notin DOMAIN reqs[r].resp.body
                                THEN "Error"
                                ELSE status_health
    /\ UNCHANGED <<phase, globals, startup_log, reqs, env, last_arrival>>

\* ---- environment steps ----

Total(c) == c["nodes"] + c["pods"] + c["namespaces"] + c["services"]

\* An object is created in or deleted from the cluster.
ClusterChange ==
    /\ phase = "serving"
    /\ \E k \in Resources, d \in {-1, 1} :
          /\ cluster[k] + d >= 0
          /\ Total(cluster) + d <= MaxObjects
          /\ cluster' = [cluster EXCEPT ![k] = @ + d]
    /\ UNCHANGED <<phase, globals, startup_log, reqs, now, last_arrival, dashboard>>

\* Time passes.
Tick ==
    /\ phase = "serving"
    /\ now < MaxTime
    /\ now' = now + 1
    /\ UNCHANGED <<phase, globals, startup_log, reqs, cluster, last_arrival,
                   dashboard>>

\* ---- specification ----

Requests == 1..MaxRequests

\* lines 13-15, before the config detection runs
Init ==
    /\ phase = "load_incluster_config"
    /\ core_v1 = None
    /\ metrics_api = None
    /\ mode = "mock"
    /\ startup_log = <<>>
    /\ reqs = [r \in Requests |-> IdleReq]
    /\ cluster \in {c \in [Resources -> 0..MaxObjects] : Total(c) <= MaxObjects}
    /\ now = 0
    /\ last_arrival = 0
    /\ latestMetricsData = EmptyDict
    /\ status_health = "Healthy"

Startup ==
    \/ LoadInclusterConfig
    \/ Tier1CoreV1
    \/ Tier1MetricsApi
    \/ LoadKubeConfig
    \/ Tier2CoreV1
    \/ Tier2MetricsApi

Handle(r) ==
    \/ MetricsEntry(r)
    \/ ListNode(r)
    \/ ListPod(r)
    \/ ListNamespace(r)
    \/ ListService(r)
    \/ NodeUsageEntry(r)
    \/ ListClusterCustomObject(r)
    \/ Ui(r)
    \/ Health(r)

Next ==
    \/ Startup
    \/ \E r \in Requests : Receive(r)
    \/ \E r \in Requests : Handle(r)
    \/ ClusterChange
    \/ Tick

Spec == Init /\ [][Next]_vars

\* The service together with a dashboard page that polls it, the cluster and
\* the clock at rest.
NextUi ==
    \/ Startup
    \/ \E r \in Requests : Receive(r)
    \/ \E r \in Requests : Handle(r)
    \/ \E r \in Requests : LoadMetrics(r)

SpecUi == Init /\ [][NextUi]_vars

TypeOK ==
    /\ phase \in {"load_incluster_config", "t1_core_v1", "t1_metrics_api",
                  "load_kube_config", "t2_core_v1", "t2_metrics_api",
                  "serving", "crashed"}
    /\ core_v1 \in {None, CoreV1Api}
    /\ metrics_api \in {None, CustomObjectsApi}
    /\ mode \in {"kubernetes", "local", "mock"}
    /\ now \in 0..MaxTime
    /\ \A r \in Requests : reqs[r].resp.status \in {0, 200, 500}
    /\ status_health \in {"Healthy", "Error"}

\* ---- claims ----

Attempted(call) == \E i \in DOMAIN startup_log : startup_log[i][1] = call
Outcome(call, o) == \E i \in DOMAIN startup_log : startup_log[i] = <<call, o>>

Tier1Calls == {"load_incluster_config", "t1.CoreV1Api", "t1.CustomObjectsApi"}
Tier2Calls == {"load_kube_config", "t2.CoreV1Api", "t2.CustomObjectsApi"}

TierOk(calls) == \A c \in calls : Outcome(c, "ok")
TierAbsent(calls) == \E c \in calls : Outcome(c, "ConfigException")

\* C1 as stated: when start-up has finished, the mode is kubernetes exactly
\* when the in-cluster load succeeded, local exactly when the in-cluster load
\* failed with ConfigException and the local load succeeded, mock exactly when
\* both loads failed with ConfigException; and after a successful in-cluster
\* load the local load is never attempted.
C1_ModeFollowsLoads ==
    /\ Outcome("load_incluster_config", "ok") => ~Attempted("load_kube_config")
    /\ phase = "serving" =>
          /\ mode = "kubernetes" <=> Outcome("load_incluster_config", "ok")
          /\ mode = "local" <=>
                /\ Outcome("load_incluster_config", "ConfigException")
                /\ Outcome("load_kube_config", "ok")
          /\ mode = "mock" <=>
                /\ Outcome("load_incluster_config", "ConfigException")
                /\ Outcome("load_kube_config", "ConfigException")

\* C1 amended: when start-up has finished, the mode is kubernetes exactly
\* when tier 1 succeeded (the in-cluster load and the construction of both
\* handles), local exactly when tier 1 failed with ConfigException (in the
\* load or in a constructor) and tier 2 succeeded (local load and both
\* constructions), mock exactly when both tiers failed with ConfigException;
\* and after a successful tier 1 the local load is never attempted.
C1_ModeFollowsTiers ==
    /\ TierOk(Tier1Calls) => ~Attempted("load_kube_config")
    /\ phase = "serving" =>
          /\ mode \in {"kubernetes", "local", "mock"}
          /\ mode = "kubernetes" <=> TierOk(Tier1Calls)
          /\ mode = "local" <=> TierAbsent(Tier1Calls) /\ TierOk(Tier2Calls)
          /\ mode = "mock" <=> TierAbsent(Tier1Calls) /\ TierAbsent(Tier2Calls)

\* Start-up finished in local mode after the in-cluster load had succeeded and
\* a tier-1 constructor raised ConfigException.
C1_Witness ==
    /\ phase = "serving"
    /\ mode = "local"
    /\ Outcome("load_incluster_config", "ok")
    /\ Outcome("t1.CustomObjectsApi", "ConfigException")

\* C2: when start-up has finished, core_v1 and metrics_api are both present
\* or both absent, and absent exactly in mock mode.
C2_HandlesAgreeWithMode ==
    phase = "serving" =>
       /\ core_v1 = None <=> metrics_api = None
       /\ core_v1 = None <=> mode = "mock"

\* Start-up finished after the tier-2 metrics constructor raised
\* ConfigException with core_v1 already assigned in tier 2.
C2_Witness ==
    /\ phase = "serving"
    /\ Outcome("t2.CoreV1Api", "ok")
    /\ Outcome("t2.CustomObjectsApi", "ConfigException")

LoadFault ==
    \/ Outcome("load_incluster_config", "OtherFault")
    \/ Outcome("load_kube_config", "OtherFault")

\* C3: a fault other than ConfigException raised by one of the two loads is
\* not caught: the step that raises it leaves mode and handles as they were
\* and ends the process, and no step follows it (no lower tier is attempted,
\* the service never serves).
C3_OtherFaultNotCaught ==
    [][ LoadFault' =>
          /\ ~LoadFault
          /\ phase' = "crashed"
          /\ UNCHANGED <<core_v1, metrics_api, mode>>
          /\ reqs' = [r \in DOMAIN reqs |-> IdleReq] ]_vars

\* The local kubeconfig load raised another fault after the in-cluster load had
\* raised ConfigException.
C3_Witness ==
    /\ Outcome("load_incluster_config", "ConfigException")
    /\ Outcome("load_kube_config", "OtherFault")
    /\ phase = "crashed"

\* C4: once start-up has finished, no step (request handler or environment)
\* changes mode, core_v1 or metrics_api.
C4_HandlersLeaveGlobals ==
    [][ phase = "serving" =>
          /\ phase' = "serving"
          /\ UNCHANGED <<core_v1, metrics_api, mode>> ]_vars

ErrorModes == {"kubernetes-error", "unexpected-error"}

\* Two "/" requests have been answered, one with mode kubernetes-error and one
\* with mode unexpected-error, and the stored mode is local.
C4_Witness ==
    /\ mode = "local"
    /\ \E r, q \in DOMAIN reqs :
          /\ reqs[r].ep = "/" /\ reqs[r].pc = "done"
          /\ reqs[q].ep = "/" /\ reqs[q].pc = "done"
          /\ reqs[r].resp.body.mode = "kubernetes-error"
          /\ reqs[q].resp.body.mode = "unexpected-error"

Modes == {"kubernetes", "local", "mock"}

IsText(x) == x \in Seq(STRING)

IsTimestamp(x) == Len(x) = 2 /\ x[1] \in Nat /\ x[2] = "Z"

\* The documented bodies of "/".
RootShape(b) ==
    \/ /\ DOMAIN b = {"mode", "cluster", "timestamp"}
       /\ b.mode \in Modes
       /\ DOMAIN b.cluster = Resources
       /\ \A k \in Resources : b.cluster[k] \in Nat
       /\ IsTimestamp(b.timestamp)
    \/ /\ DOMAIN b = {"mode", "error"}
       /\ b.mode = "kubernetes-error"
       /\ DOMAIN b.error = {"status", "reason", "body"}
    \/ /\ DOMAIN b = {"mode", "error"}
       /\ b.mode = "unexpected-error"
       /\ IsText(b.error)

\* The documented bodies of "/node-usage".
UsageShape(b) ==
    \/ /\ DOMAIN b = {"mode", "items", "timestamp"}
       /\ b.mode \in Modes \cup ErrorModes
       /\ \A i \in DOMAIN b.items : DOMAIN b.items[i] = {"node", "cpu", "memory"}
       /\ IsTimestamp(b.timestamp)
    \/ /\ DOMAIN b \in {{"mode", "error", "items"}, {"mode", "error", "hint", "items"}}
       /\ b.mode \in Modes \cup ErrorModes
       /\ IsText(b.error)
       /\ b.items = <<>>

\* C5: no request is answered with a failed response, and every answer of "/"
\* and "/node-usage" is a 200 whose body has one of the documented shapes.
C5_AlwaysDocumented200 ==
    \A r \in DOMAIN reqs :
       /\ reqs[r].resp.status # 500
       /\ reqs[r].pc = "done" /\ reqs[r].ep \in {"/", "/node-usage"} =>
             /\ reqs[r].resp.status = 200
             /\ reqs[r].ep = "/" => RootShape(reqs[r].resp.body)
             /\ reqs[r].ep = "/node-usage" => UsageShape(reqs[r].resp.body)

LastCall(r) == reqs[r].calls[Len(reqs[r].calls)]

\* The outbound call of request r failed, with a fault of class cls.
Failed(r, cls) ==
    /\ reqs[r].calls # <<>>
    /\ ~LastCall(r).ok
    /\ LastCall(r).fault.class = cls

\* A "/" request whose query returned a malformed response and a "/node-usage"
\* request whose payload held an item without a name have both been answered.
C5_Witness ==
    \E r, q \in DOMAIN reqs :
       /\ reqs[r].ep = "/" /\ reqs[r].pc = "done"
       /\ Failed(r, "Exception") /\ LastCall(r).fault.msg = "malformed response"
       /\ reqs[q].ep = "/node-usage" /\ reqs[q].pc = "done"
       /\ reqs[q].calls # <<>> /\ LastCall(q).ok
       /\ "error" \in DOMAIN reqs[q].resp.body
       /\ reqs[q].resp.body.error = <<"Unexpected error: ", "name">>

\* All four queries of request r succeeded.
AllListed(r) ==
    /\ Len(reqs[r].calls) = 4
    /\ \A i \in 1..4 : reqs[r].calls[i].ok

\* What call c of request r returned.
ValueOf(r, c) ==
    reqs[r].calls[CHOOSE i \in DOMAIN reqs[r].calls : reqs[r].calls[i].call = c].value

\* C6: a "/" request whose four queries succeeded is answered with the
\* resolved mode (kubernetes or local), a timestamp, and for each kind the
\* number of items its own query returned.
C6_CountsOfOwnQueries ==
    \A r \in DOMAIN reqs :
       reqs[r].ep = "/" /\ reqs[r].pc = "done" /\ AllListed(r) =>
          LET b == reqs[r].resp.body
          IN  /\ reqs[r].resp.status = 200
              /\ b.mode = mode
              /\ mode \in {"kubernetes", "local"}
              /\ "timestamp" \in DOMAIN b
              /\ b.cluster.nodes = Len(ValueOf(r, "list_node"))
              /\ b.cluster.pods = Len(ValueOf(r, "list_pod_for_all_namespaces"))
              /\ b.cluster.namespaces = Len(ValueOf(r, "list_namespace"))
              /\ b.cluster.services =
                    Len(ValueOf(r, "list_service_for_all_namespaces"))

\* A request whose node query returned one node and whose pod query returned
\* no pod has been answered.
C6_Witness ==
    \E r \in DOMAIN reqs :
       /\ reqs[r].ep = "/" /\ reqs[r].pc = "done" /\ AllListed(r)
       /\ Len(ValueOf(r, "list_node")) = 1
       /\ Len(ValueOf(r, "list_pod_for_all_namespaces")) = 0

\* C7: in mock mode a "/" request makes no outbound call and is answered
\* with mode mock and four zero counts.
C7_MockSnapshot ==
    phase = "serving" /\ mode = "mock" =>
       \A r \in DOMAIN reqs :
          reqs[r].ep = "/" =>
             /\ reqs[r].calls = <<>>
             /\ reqs[r].pc \in {"entry", "done"}
             /\ reqs[r].pc = "done" =>
                   /\ reqs[r].resp.status = 200
                   /\ DOMAIN reqs[r].resp.body = {"mode", "cluster", "timestamp"}
                   /\ reqs[r].resp.body.mode = "mock"
                   /\ reqs[r].resp.body.cluster =
                         [nodes |-> 0, pods |-> 0, namespaces |-> 0, services |-> 0]

\* A "/" request has been answered in mock mode while the cluster holds an
\* object.
C7_Witness ==
    /\ phase = "serving" /\ mode = "mock"
    /\ Total(cluster) > 0
    /\ \E r \in DOMAIN reqs : reqs[r].ep = "/" /\ reqs[r].pc = "done"

\* C8: without a metrics handle a "/node-usage" request makes no outbound
\* call and is answered with no items, the unavailability message and no hint.
C8_MockNodeUsage ==
    phase = "serving" /\ metrics_api = None =>
       \A r \in DOMAIN reqs :
          reqs[r].ep = "/node-usage" =>
             /\ reqs[r].calls = <<>>
             /\ reqs[r].pc \in {"entry", "done"}
             /\ reqs[r].pc = "done" =>
                   /\ reqs[r].resp.status = 200
                   /\ reqs[r].resp.body.items = <<>>
                   /\ "error" \in DOMAIN reqs[r].resp.body
                   /\ reqs[r].resp.body.error =
                         <<"Metrics API not available (not connected to cluster)">>
                   /\ "hint" \notin DOMAIN reqs[r].resp.body

\* A "/node-usage" request has been answered in mock mode.
C8_Witness ==
    /\ phase = "serving" /\ mode = "mock" /\ metrics_api = None
    /\ \E r \in DOMAIN reqs : reqs[r].ep = "/node-usage" /\ reqs[r].pc = "done"

\* C9: a "/" request one of whose queries raised an ApiException is answered
\* with mode kubernetes-error and the status, reason and body of that fault.
C9_ControlPlaneErrorShape ==
    \A r \in DOMAIN reqs :
       reqs[r].ep = "/" /\ reqs[r].pc = "done" /\ Failed(r, "ApiException") =>
          /\ reqs[r].resp.status = 200
          /\ DOMAIN reqs[r].resp.body = {"mode", "error"}
          /\ reqs[r].resp.body.mode = "kubernetes-error"
          /\ reqs[r].resp.body.error =
                [status |-> LastCall(r).fault.status,
                 reason |-> LastCall(r).fault.reason,
                 body |-> LastCall(r).fault.body]

\* The third query of a request raised 403 Forbidden after two queries had
\* succeeded, and the request has been answered.
C9_Witness ==
    \E r \in DOMAIN reqs :
       /\ reqs[r].ep = "/" /\ reqs[r].pc = "done"
       /\ Len(reqs[r].calls) = 3
       /\ Failed(r, "ApiException")
       /\ LastCall(r).fault.status = 403
       /\ LastCall(r).fault.reason = "Forbidden"

\* C10: a "/" request one of whose queries raised a fault that is no
\* ApiException is answered with mode unexpected-error and the text of the
\* fault; unexpected-error is reported for such faults only and
\* kubernetes-error for ApiExceptions only.
C10_UnexpectedErrorShape ==
    \A r \in DOMAIN reqs :
       reqs[r].ep = "/" /\ reqs[r].pc = "done" =>
          /\ Failed(r, "Exception") =>
                /\ reqs[r].resp.status = 200
                /\ DOMAIN reqs[r].resp.body = {"mode", "error"}
                /\ reqs[r].resp.body.mode = "unexpected-error"
                /\ reqs[r].resp.body.error = <<LastCall(r).fault.msg>>
          /\ reqs[r].resp.status = 200 =>
                /\ reqs[r].resp.body.mode = "unexpected-error" => Failed(r, "Exception")
                /\ reqs[r].resp.body.mode = "kubernetes-error" => Failed(r, "ApiException")

\* The second query of a request failed with a network fault after the first
\* had succeeded, and the request has been answered.
C10_Witness ==
    \E r \in DOMAIN reqs :
       /\ reqs[r].ep = "/" /\ reqs[r].pc = "done"
       /\ Len(reqs[r].calls) = 2
       /\ Failed(r, "Exception")
       /\ LastCall(r).fault.msg = "connection refused"

\* ---- claims about /node-usage, /health and the sequence of requests ----

\* The list node_usage() iterates over in payload p.
SourceItems(p) == IF "items" \in DOMAIN p THEN p.items.v ELSE <<>>

\* Payload p has a list of items (or no items key) and no item lacks a key.
WellFormed(p) ==
    /\ "items" \in DOMAIN p => p.items.t = "list"
    /\ \A i \in DOMAIN SourceItems(p) : MissingKey(SourceItems(p)[i]) = ""

\* The metrics query of "/node-usage" request r returned payload p.
Fetched(r, p) ==
    /\ reqs[r].ep = "/node-usage" /\ reqs[r].pc = "done"
    /\ reqs[r].calls # <<>>
    /\ LastCall(r).ok
    /\ LastCall(r).value = p

\* C11: a "/node-usage" request whose query returned a well-formed payload
\* is answered with one entry per item, in the order of the payload, each with
\* the item's name, usage.cpu and usage.memory unchanged; a payload without
\* items key gives an empty list as a success.
C11_PassThrough ==
    \A r \in DOMAIN reqs :
       reqs[r].ep = "/node-usage" /\ reqs[r].pc = "done" /\ reqs[r].calls # <<>>
       /\ LastCall(r).ok /\ WellFormed(LastCall(r).value) =>
          LET b == reqs[r].resp.body
              src == SourceItems(LastCall(r).value)
          IN  /\ reqs[r].resp.status = 200
              /\ DOMAIN b = {"mode", "items", "timestamp"}
              /\ Len(b.items) = Len(src)
              /\ \A i \in DOMAIN src :
                    /\ b.items[i].node = src[i].metadata.name
                    /\ b.items[i].cpu = src[i].usage.cpu
                    /\ b.items[i].memory = src[i].usage.memory

\* A request whose payload listed node-b before node-a has been answered,
\* node-a with cpu 250m and memory 512Mi.
C11_Witness ==
    \E r \in DOMAIN reqs :
       /\ reqs[r].ep = "/node-usage" /\ reqs[r].pc = "done"
       /\ reqs[r].calls # <<>> /\ LastCall(r).ok
       /\ WellFormed(LastCall(r).value)
       /\ Len(SourceItems(LastCall(r).value)) = 2
       /\ SourceItems(LastCall(r).value)[1].metadata.name = "node-b"
       /\ SourceItems(LastCall(r).value)[2].metadata.name = "node-a"
       /\ SourceItems(LastCall(r).value)[2].usage.cpu = "250m"

\* The "/node-usage" request r, made with a handle, failed: its query raised
\* or its payload could not be projected.
UsageFailed(r) ==
    /\ reqs[r].ep = "/node-usage" /\ reqs[r].pc = "done"
    /\ reqs[r].calls # <<>>
    /\ LastCall(r).ok => ~WellFormed(LastCall(r).value)

\* C12: a failed "/node-usage" request is answered with no items and an
\* error message, and with a hint exactly when the fault is an ApiException.
C12_HintForControlPlaneOnly ==
    \A r \in DOMAIN reqs :
       UsageFailed(r) =>
          /\ reqs[r].resp.status = 200
          /\ "error" \in DOMAIN reqs[r].resp.body
          /\ IsText(reqs[r].resp.body.error)
          /\ reqs[r].resp.body.items = <<>>
          /\ "timestamp" \notin DOMAIN reqs[r].resp.body
          /\ "hint" \in DOMAIN reqs[r].resp.body <=> Failed(r, "ApiException")

\* A request whose payload held a good item followed by an item without usage
\* has been answered.
C12_Witness ==
    \E r \in DOMAIN reqs :
       /\ UsageFailed(r)
       /\ LastCall(r).ok
       /\ "items" \in DOMAIN LastCall(r).value
       /\ LastCall(r).value.items.t = "list"
       /\ Len(SourceItems(LastCall(r).value)) = 2
       /\ MissingKey(SourceItems(LastCall(r).value)[1]) = ""
       /\ MissingKey(SourceItems(LastCall(r).value)[2]) = "usage"

\* C13: "/health" makes no outbound call and answers {status: ok}, whatever
\* the mode and whatever the other requests were answered.
C13_HealthAlwaysOk ==
    \A r \in DOMAIN reqs :
       reqs[r].ep = "/health" =>
          /\ reqs[r].calls = <<>>
          /\ reqs[r].pc \in {"entry", "done"}
          /\ reqs[r].pc = "done" => reqs[r].resp = Ok200([status |-> "ok"])

\* "/health" has been answered in mock mode.
C13_Witness ==
    /\ mode = "mock"
    /\ \E r \in DOMAIN reqs : reqs[r].ep = "/health" /\ reqs[r].pc = "done"

\* Request r was answered by "/" with a body that carries a timestamp.
HasTimestamp(r) ==
    /\ reqs[r].ep = "/" /\ reqs[r].pc = "done"
    /\ reqs[r].resp.status = 200
    /\ "timestamp" \in DOMAIN reqs[r].resp.body

\* The instant of the timestamp of request r.
InstantOf(r) == reqs[r].resp.body.timestamp[1]

\* Request r is the one that arrived last.
Latest(r) ==
    /\ reqs[r].pc # "idle"
    /\ \A s \in DOMAIN reqs : s > r => reqs[s].pc = "idle"

\* Call r to "/" was made at least one second after the instant at which call
\* q to "/" was answered, and has been answered too.
Sequential(q, r) ==
    /\ q < r
    /\ HasTimestamp(q)
    /\ Latest(r)
    /\ reqs[r].ep = "/" /\ reqs[r].pc = "done"
    /\ last_arrival >= InstantOf(q) + 1

\* C14 as stated: of two sequential calls to "/" at least one second apart,
\* the second is answered with a timestamp too, later than the first one's.
C14_TimestampsAlways ==
    \A q, r \in DOMAIN reqs :
       Sequential(q, r) => HasTimestamp(r) /\ InstantOf(r) > InstantOf(q)

\* C14 amended: of two sequential calls to "/" at least one second apart, the
\* second, when it is not answered with an error report, is answered with a
\* timestamp later than the first one's.
C14_TimestampsOfSnapshots ==
    \A q, r \in DOMAIN reqs :
       Sequential(q, r) /\ reqs[r].resp.status = 200
       /\ reqs[r].resp.body.mode \notin {"kubernetes-error", "unexpected-error"} =>
          HasTimestamp(r) /\ InstantOf(r) > InstantOf(q)

\* Two calls one second apart have both been answered with a snapshot.
C14_Witness ==
    \E q, r \in DOMAIN reqs :
       /\ Sequential(q, r)
       /\ HasTimestamp(r)
       /\ reqs[r].calls # <<>>

\* The names of the calls request r has made, in order.
CallNames(r) == [i \in DOMAIN reqs[r].calls |-> reqs[r].calls[i].call]

\* C15: a request issues each query at most once, issues nothing after a
\* query that failed, and every snapshot or usage list it returns with a
\* handle present comes from queries of its own.
C15_NoRetryNoCache ==
    \A r \in DOMAIN reqs :
       /\ \A i, j \in DOMAIN reqs[r].calls :
             reqs[r].calls[i].call = reqs[r].calls[j].call => i = j
       /\ \A i \in DOMAIN reqs[r].calls : ~reqs[r].calls[i].ok => i = Len(reqs[r].calls)
       /\ reqs[r].ep = "/" => Len(reqs[r].calls) <= 4
       /\ reqs[r].ep = "/node-usage" => Len(reqs[r].calls) <= 1
       /\ reqs[r].ep \in {"/ui", "/health"} => reqs[r].calls = <<>>
       /\ reqs[r].pc = "done" /\ reqs[r].resp.status = 200 =>
             /\ reqs[r].ep = "/" /\ core_v1 # None
                /\ "cluster" \in DOMAIN reqs[r].resp.body => AllListed(r)
             /\ reqs[r].ep = "/node-usage" /\ metrics_api # None =>
                   Len(reqs[r].calls) = 1

\* Two "/" requests have been answered with different counts, each after four
\* queries of its own.
C15_Witness ==
    \E q, r \in DOMAIN reqs :
       /\ reqs[q].ep = "/" /\ reqs[q].pc = "done" /\ AllListed(q)
       /\ reqs[r].ep = "/" /\ reqs[r].pc = "done" /\ AllListed(r)
       /\ reqs[q].resp.body.cluster # reqs[r].resp.body.cluster

\* The kind of object a list query of metrics() asks for.
ResourceOf(c) ==
    CASE c = "list_node" -> "nodes"
      [] c = "list_pod_for_all_namespaces" -> "pods"
      [] c = "list_namespace" -> "namespaces"
      [] c = "list_service_for_all_namespaces" -> "services"

\* C17: every query of a "/" request returns the objects the cluster holds at
\* the instant of that query, and the request is answered with exactly these
\* counts and the resolved mode, whether or not the cluster ever held them
\* together.
C17_CountsOfOwnInstants ==
    [][ \A r \in DOMAIN reqs :
          reqs[r].ep = "/" /\ Len(reqs'[r].calls) = Len(reqs[r].calls) + 1 =>
             LET e == reqs'[r].calls[Len(reqs'[r].calls)]
             IN  e.ok =>
                    /\ e.value = ListOf(cluster[ResourceOf(e.call)])
                    /\ reqs'[r].pc = "done" =>
                          /\ reqs'[r].resp.status = 200
                          /\ reqs'[r].resp.body.mode = mode
                          /\ \A i \in 1..4 :
                                reqs'[r].resp.body.cluster[ResourceOf(reqs'[r].calls[i].call)]
                                   = Len(reqs'[r].calls[i].value) ]_vars

\* A request has been answered with more objects than the cluster holds at any
\* one instant.
C17_Witness ==
    \E r \in DOMAIN reqs :
       /\ reqs[r].ep = "/" /\ reqs[r].pc = "done" /\ AllListed(r)
       /\ Total(reqs[r].resp.body.cluster) > MaxObjects

\* Body b without its timestamp.
Body(b) == [k \in DOMAIN b \ {"timestamp"} |-> b[k]]

\* C18: two answered requests to the same endpoint whose outbound calls had
\* the same outcomes have the same body apart from the timestamp; and a "/"
\* request is answered with an error mode exactly when a query of its own
\* failed, with the resolved mode otherwise, whatever the other requests were
\* answered.
C18_RequestsIndependent ==
    /\ \A q, r \in DOMAIN reqs :
          /\ reqs[q].pc = "done" /\ reqs[r].pc = "done"
          /\ reqs[q].ep = reqs[r].ep /\ reqs[q].ep \in {"/", "/node-usage"}
          /\ reqs[q].calls = reqs[r].calls
          => Body(reqs[q].resp.body) = Body(reqs[r].resp.body)
    /\ \A r \in DOMAIN reqs :
          reqs[r].ep = "/" /\ reqs[r].pc = "done" /\ reqs[r].resp.status = 200 =>
             /\ reqs[r].resp.body.mode \in {"kubernetes-error", "unexpected-error"}
                   <=> (reqs[r].calls # <<>> /\ ~LastCall(r).ok)
             /\ reqs[r].resp.body.mode \notin {"kubernetes-error", "unexpected-error"}
                   => reqs[r].resp.body.mode = mode
             /\ AllListed(r) => "cluster" \in DOMAIN reqs[r].resp.body

\* A "/" request has been answered with an error mode, and the request that
\* arrived after it with the resolved mode and counts.
C18_Witness ==
    \E q, r \in DOMAIN reqs :
       /\ q < r
       /\ reqs[q].ep = "/" /\ reqs[q].pc = "done"
       /\ reqs[q].resp.body.mode = "kubernetes-error"
       /\ reqs[r].ep = "/" /\ reqs[r].pc = "done" /\ AllListed(r)
       /\ reqs[r].resp.body.mode = mode

\* C19: every "/node-usage" answer carries the resolved mode, never an error
\* mode.
C19_UsageModeIsResolvedMode ==
    \A r \in DOMAIN reqs :
       reqs[r].ep = "/node-usage" /\ reqs[r].pc = "done" =>
          /\ reqs[r].resp.status = 200
          /\ reqs[r].resp.body.mode = mode
          /\ reqs[r].resp.body.mode \in {"kubernetes", "local", "mock"}

\* A "/node-usage" request whose query raised an ApiException has been
\* answered in kubernetes mode.
C19_Witness ==
    /\ mode = "kubernetes"
    /\ \E r \in DOMAIN reqs :
          /\ reqs[r].ep = "/node-usage" /\ reqs[r].pc = "done"
          /\ Failed(r, "ApiException")

ListOrder ==
    <<"list_node", "list_pod_for_all_namespaces", "list_namespace",
      "list_service_for_all_namespaces">>

\* C20: a "/" request issues its queries in the order nodes, pods,
\* namespaces, services, issues none after one that failed, and its error
\* answer carries neither counts nor timestamp.
C20_FixedOrderStopAtFirstFailure ==
    \A r \in DOMAIN reqs :
       reqs[r].ep = "/" =>
          /\ Len(reqs[r].calls) <= 4
          /\ CallNames(r) = SubSeq(ListOrder, 1, Len(reqs[r].calls))
          /\ \A i \in DOMAIN reqs[r].calls : i < Len(reqs[r].calls) => reqs[r].calls[i].ok
          /\ reqs[r].calls # <<>> /\ ~LastCall(r).ok =>
                /\ reqs[r].pc = "done"
                /\ DOMAIN reqs[r].resp.body = {"mode", "error"}

\* The services query of a request failed after the three other queries had
\* succeeded, the first with one node, and the request has been answered.
C20_Witness ==
    \E r \in DOMAIN reqs :
       /\ reqs[r].ep = "/" /\ reqs[r].pc = "done"
       /\ Len(reqs[r].calls) = 4
       /\ ~LastCall(r).ok
       /\ Len(reqs[r].calls[1].value) = 1

\* ---- claim about the dashboard ----

\* C16: the health badge shows Error whenever the mode of the last polled "/"
\* response is not kubernetes or local (mock, kubernetes-error or
\* unexpected-error).
C16_ErrorBadgeUnlessHealthyMode ==
    "mode" \in DOMAIN latestMetricsData
    /\ latestMetricsData.mode \notin {"kubernetes", "local"}
    => status_health = "Error"

====
